---- MODULE Spec2Model ----
(***************************************************************************)
(* Model of the weather gateway of app/main.py: the two /weather handlers  *)
(* (POST get_weather, GET get_weather_get) and /health.  One request is    *)
(* served at a time; a handler runs as a whole in one action, with the     *)
(* request and the outcome of its upstream call drawn from small sets.     *)
(***************************************************************************)
EXTENDS Integers, Sequences, FiniteSets, TLC

VARIABLES pc, req, url, calls, upstream, resp

vars == <<pc, req, url, calls, upstream, resp>>

(***************************************************************************)
(* Bounds.  Coordinates are the whole-degree floats 0.0 .. MaxCoord.0.     *)
(***************************************************************************)
MaxCoord == 1

(***************************************************************************)
(* Decoded JSON values, as Python holds them: <<tag, value>>.              *)
(* An object's value is a function from its keys to JSON values; a key     *)
(* that is absent is not in the function's domain.                         *)
(***************************************************************************)
None == <<"null", 0>>
JNum(n) == <<"num", n>>
JStr(s) == <<"str", s>>
JArr(q) == <<"arr", q>>
JObj(f) == <<"obj", f>>
Tag(j) == j[1]
Val(j) == j[2]

EmptyDict == [k \in {} |-> None]

\* Optional[float]: <<>> is None, <<x>> is the float x.
NoFloat == <<>>
Some(x) == <<x>>

(***************************************************************************)
(* Results of evaluating a Python expression: a value or a raised          *)
(* exception.                                                              *)
(***************************************************************************)
Ok(v) == <<"ok", v>>
Raise(e) == <<"raise", e>>
IsOk(r) == r[1] = "ok"

\* d.get(k, default) on a dict d (main.py: weather_data.get(...)).
DictGet(d, k, default) == IF k \in DOMAIN d THEN d[k] ELSE default

\* j.get(k) on an arbitrary decoded value j: only a dict has .get.
MethodGet(j, k) ==
    IF Tag(j) = "obj" THEN Ok(DictGet(Val(j), k, None))
    ELSE Raise("AttributeError")

\* j[0] on an arbitrary decoded value j.  Strings of the model have at most
\* one character, so a non-empty string's [0] is the string itself.
Index0(j) ==
    CASE Tag(j) = "arr" -> IF Len(Val(j)) > 0 THEN Ok(Val(j)[1]) ELSE Raise("IndexError")
      [] Tag(j) = "obj" -> Raise("KeyError")
      [] Tag(j) = "str" -> IF Val(j) # "" THEN Ok(j) ELSE Raise("IndexError")
      [] OTHER -> Raise("TypeError")

\* e.get(k) where e is itself the result of an evaluation.
ThenGet(r, k) == IF IsOk(r) THEN MethodGet(r[2], k) ELSE r

(***************************************************************************)
(* requests' exception classes.                                            *)
(***************************************************************************)
TimeoutClasses == {"Timeout", "ConnectTimeout", "ReadTimeout"}
RequestExceptionClasses ==
    TimeoutClasses \cup {"ConnectionError", "SSLError", "HTTPError", "JSONDecodeError"}

IsTimeout(e) == e \in TimeoutClasses
IsRequestException(e) == e \in RequestExceptionClasses

(***************************************************************************)
(* Requests.  A city name is a string, held as its sequence of tokens so   *)
(* that formatting it into the URL is concatenation, as the f-string does  *)
(* it; the names include ones with the URL's reserved characters.          *)
(***************************************************************************)
CityNames ==
    { <<"Paris">>,
      <<"x", "&", "lat", "=", "1.0", "&", "lon", "=", "1.0">>,
      <<"Oslo", "#">> }

Floats == 0..MaxCoord
OptFloats == {NoFloat} \cup {Some(x) : x \in Floats}

\* LocationInput (main.py: class LocationInput).
LocationInput == [city_name : CityNames, lat : OptFloats, lon : OptFloats]

\* str(x) of a whole-degree float x, as the f-string formats it: "1.0".
DigitTok == <<"0", "1", "2", "3", "4", "5", "6", "7", "8", "9">>
FormatFloat(x) == <<DigitTok[x + 1], ".0">>

\* Python truthiness of an Optional[float]: None and 0.0 are falsy.
Truthy(o) == o # NoFloat /\ o[1] # 0

Base == "https://api.openweathermap.org/data/2.5/weather?"
ApiKey == "OPENWEATHER_API_KEY"
Suffix == <<"&", "appid", "=", ApiKey, "&", "units", "=", "metric">>

(***************************************************************************)
(* Upstream outcomes: what requests.get, raise_for_status and              *)
(* response.json() produce for one call.                                   *)
(***************************************************************************)
Opt(k, vals) == {EmptyDict} \cup {k :> v : v \in vals}

FullSys == JObj("country" :> JStr("FR"))
FullMain == JObj(("temp" :> JNum(15)) @@ ("feels_like" :> JNum(14)) @@ ("humidity" :> JNum(70)))
FullWind == JObj("speed" :> JNum(3))
FullWeatherItem == JObj(("description" :> JStr("clear sky")) @@ ("icon" :> JStr("01d")))
FullCoord == JObj(("lon" :> JNum(2)) @@ ("lat" :> JNum(48)))

CodPart == Opt("cod", {JNum(200), JNum(404), JStr("200")})
MessagePart == Opt("message", {JStr("city not found"), None})
NamePart == Opt("name", {JStr("Paris")})
SysPart == Opt("sys", {JObj(EmptyDict), FullSys})
MainPart == Opt("main", {FullMain})
WindPart == Opt("wind", {FullWind})
WeatherPart ==
    Opt("weather", {JArr(<<>>), JArr(<<JObj(EmptyDict)>>), JArr(<<FullWeatherItem>>)})
CoordDtPart == {EmptyDict, ("coord" :> FullCoord) @@ ("dt" :> JNum(1700))}

\* Decoded payloads that are JSON objects.
ObjectPayloads ==
    { JObj(c @@ m @@ n @@ s @@ mn @@ w @@ we @@ cd) :
        c \in CodPart, m \in MessagePart, n \in NamePart, s \in SysPart,
        mn \in MainPart, w \in WindPart, we \in WeatherPart, cd \in CoordDtPart }
    \cup { JObj(("cod" :> JNum(200)) @@ ("sys" :> None)),
           JObj(("cod" :> JNum(200)) @@ ("weather" :> None)),
           JObj(("cod" :> JNum(200)) @@ ("main" :> JStr("x"))) }

\* Decoded payloads that are not objects.
NonObjectPayloads ==
    { JArr(<<>>), JArr(<<JObj("cod" :> JNum(200))>>), JStr("x"), JNum(200),
      <<"bool", TRUE>>, None }

Payloads == ObjectPayloads \cup NonObjectPayloads

TransportFailures ==
    { [exc |-> e, status |-> 0, decode |-> "ok", data |-> None] :
        e \in TimeoutClasses \cup {"ConnectionError", "SSLError"} }
HttpErrors ==
    { [exc |-> "", status |-> s, decode |-> "ok", data |-> None] : s \in {404, 500} }
\* A body that is not JSON: response.json() raises requests' JSONDecodeError
\* (a RequestException), or a plain ValueError with requests before 2.27.
BadBodies ==
    { [exc |-> "", status |-> 200, decode |-> e, data |-> None] :
        e \in {"JSONDecodeError", "ValueError"} }
Decoded ==
    { [exc |-> "", status |-> 200, decode |-> "ok", data |-> p] : p \in Payloads }

Outcomes == TransportFailures \cup HttpErrors \cup BadBodies \cup Decoded
NoOutcome == [exc |-> "", status |-> 0, decode |-> "", data |-> None]

\* What the try body of a handler ends with: a returned value, a raised
\* HTTPException, or another raised exception.
RaiseHTTP(status, detail) == <<"http", status, detail>>

\* What a request ends with.  The body of a raised HTTPException is the
\* detail the handler passes to it.
Response(status, kind, body) == [status |-> status, kind |-> kind, body |-> body]
NoResponse == Response(0, "", None)

\* The ten keys of the returned dict, in the order of the dict literal.
OutKeys ==
    <<"city", "country", "temperature", "feels_like", "humidity", "wind_speed",
      "weather", "icon", "coordinates", "timestamp">>

\* A dict literal: the entries are evaluated in order and the first raise
\* ends the evaluation.
DictLiteral(fields) ==
    LET bad == {i \in 1..Len(fields) : ~IsOk(fields[i])} IN
    IF bad # {}
    THEN fields[CHOOSE i \in bad : \A j \in bad : i <= j]
    ELSE Ok(JObj([k \in {OutKeys[i] : i \in 1..Len(fields)} |->
                    fields[CHOOSE i \in 1..Len(fields) : OutKeys[i] = k][2]]))

\* An exception that leaves a handler reaches the framework.
Unhandled(e) == Response(500, "unhandled", JStr(e))


(***************************************************************************)
(* POST /weather: get_weather.                                             *)
(***************************************************************************)
\* The URL of the upstream call.
get_weather_url(location) ==
    IF Truthy(location.lat) /\ Truthy(location.lon)
    THEN <<Base, "lat", "=">> \o FormatFloat(location.lat[1])
           \o <<"&", "lon", "=">> \o FormatFloat(location.lon[1]) \o Suffix
    ELSE <<Base, "q", "=">> \o location.city_name \o Suffix

\* The cod check: weather_data.get("cod") != 200.
get_weather_cod_rejected(weather_data) ==
    LET cod == DictGet(weather_data, "cod", None) IN
    ~(Tag(cod) = "num" /\ Val(cod) = 200)

\* Mutant: the payload's message is dropped for the fixed string.
C2_detail_fixed_string(weather_data) == JStr("Unknown error from weather API")

\* detail=weather_data.get("message", "Unknown error from weather API").
get_weather_detail(weather_data) ==
    DictGet(weather_data, "message", JStr("Unknown error from weather API"))

\* The entries of the returned dict, in order.
get_weather_fields(weather_data) ==
    << Ok(DictGet(weather_data, "name", None)),
       MethodGet(DictGet(weather_data, "sys", JObj(EmptyDict)), "country"),
       MethodGet(DictGet(weather_data, "main", JObj(EmptyDict)), "temp"),
       MethodGet(DictGet(weather_data, "main", JObj(EmptyDict)), "feels_like"),
       MethodGet(DictGet(weather_data, "main", JObj(EmptyDict)), "humidity"),
       MethodGet(DictGet(weather_data, "wind", JObj(EmptyDict)), "speed"),
       ThenGet(Index0(DictGet(weather_data, "weather", JArr(<<JObj(EmptyDict)>>))),
               "description"),
       ThenGet(Index0(DictGet(weather_data, "weather", JArr(<<JObj(EmptyDict)>>))),
               "icon"),
       Ok(DictGet(weather_data, "coord", None)),
       Ok(DictGet(weather_data, "dt", None)) >>

\* Mutant: the isinstance check is missing, so the cod check's .get is called
\* on whatever was decoded.
C8_try_without_isinstance(o) ==
    CASE o.exc # "" -> Raise(o.exc)
      [] o.exc = "" /\ o.status >= 400 -> Raise("HTTPError")
      [] o.exc = "" /\ o.status < 400 /\ o.decode # "ok" -> Raise(o.decode)
      [] OTHER ->
           IF Tag(o.data) # "obj"
           THEN Raise("AttributeError")
           ELSE IF get_weather_cod_rejected(Val(o.data))
           THEN RaiseHTTP(400, get_weather_detail(Val(o.data)))
           ELSE DictLiteral(get_weather_fields(Val(o.data)))

\* The body of the try statement, given the outcome o of the upstream call.
get_weather_try(o) ==
    CASE o.exc # "" -> Raise(o.exc)
      [] o.exc = "" /\ o.status >= 400 -> Raise("HTTPError")
      [] o.exc = "" /\ o.status < 400 /\ o.decode # "ok" -> Raise(o.decode)
      [] OTHER ->
           IF Tag(o.data) # "obj"
           THEN RaiseHTTP(502, JStr("Invalid response from weather API"))
           ELSE IF get_weather_cod_rejected(Val(o.data))
           THEN RaiseHTTP(400, get_weather_detail(Val(o.data)))
           ELSE DictLiteral(get_weather_fields(Val(o.data)))

\* Mutant: the except clauses in the other order, RequestException first.
C4_except_swapped(e) ==
    IF IsRequestException(e)
    THEN Response(400, "HTTPException", <<"fstr", <<"Weather API request failed: ", e>>>>)
    ELSE IF IsTimeout(e)
    THEN Response(504, "HTTPException", JStr("Weather API request timed out"))
    ELSE Unhandled(e)

\* The except clauses, in order: Timeout, then RequestException.
get_weather_except(e) ==
    IF IsTimeout(e)
    THEN Response(504, "HTTPException", JStr("Weather API request timed out"))
    ELSE IF IsRequestException(e)
    THEN Response(400, "HTTPException", <<"fstr", <<"Weather API request failed: ", e>>>>)
    ELSE Unhandled(e)

\* The response the request ends with.
get_weather_response(o) ==
    LET r == get_weather_try(o) IN
    CASE r[1] = "ok" -> Response(200, "return", r[2])
      [] r[1] = "http" -> Response(r[2], "HTTPException", r[3])
      [] OTHER -> get_weather_except(r[2])

\* Mutant: a failed call is tried a second time.
C9_calls_with_retry(o) == IF o.exc # "" THEN 2 ELSE 1

\* requests.get is called once in the handler, outside any loop.
get_weather_calls(o) == 1

(***************************************************************************)
(* GET /weather: get_weather_get.                                          *)
(***************************************************************************)
\* Mutant: the GET handler's URL has lost its units parameter.
C7_url_without_units(city_name) == <<Base, "q", "=">> \o city_name \o <<"&", "appid", "=", ApiKey>>

get_weather_get_url(city_name) == <<Base, "q", "=">> \o city_name \o Suffix

\* Mutant: the cod check fires only when the payload has a cod.
C3_cod_rejected_if_present(weather_data) ==
    /\ "cod" \in DOMAIN weather_data
    /\ ~(Tag(weather_data["cod"]) = "num" /\ Val(weather_data["cod"]) = 200)

\* The cod check: weather_data.get("cod") != 200.
get_weather_get_cod_rejected(weather_data) ==
    LET cod == DictGet(weather_data, "cod", None) IN
    ~(Tag(cod) = "num" /\ Val(cod) = 200)

\* detail=weather_data.get("message", "Unknown error from weather API").
get_weather_get_detail(weather_data) ==
    DictGet(weather_data, "message", JStr("Unknown error from weather API"))

\* Mutant: temperature and feels_like read each other's member.
C10_fields_swapped(weather_data) ==
    << Ok(DictGet(weather_data, "name", None)),
       MethodGet(DictGet(weather_data, "sys", JObj(EmptyDict)), "country"),
       MethodGet(DictGet(weather_data, "main", JObj(EmptyDict)), "feels_like"),
       MethodGet(DictGet(weather_data, "main", JObj(EmptyDict)), "temp"),
       MethodGet(DictGet(weather_data, "main", JObj(EmptyDict)), "humidity"),
       MethodGet(DictGet(weather_data, "wind", JObj(EmptyDict)), "speed"),
       ThenGet(Index0(DictGet(weather_data, "weather", JArr(<<JObj(EmptyDict)>>))),
               "description"),
       ThenGet(Index0(DictGet(weather_data, "weather", JArr(<<JObj(EmptyDict)>>))),
               "icon"),
       Ok(DictGet(weather_data, "coord", None)),
       Ok(DictGet(weather_data, "dt", None)) >>

\* The entries of the returned dict, in order.
get_weather_get_fields(weather_data) ==
    << Ok(DictGet(weather_data, "name", None)),
       MethodGet(DictGet(weather_data, "sys", JObj(EmptyDict)), "country"),
       MethodGet(DictGet(weather_data, "main", JObj(EmptyDict)), "temp"),
       MethodGet(DictGet(weather_data, "main", JObj(EmptyDict)), "feels_like"),
       MethodGet(DictGet(weather_data, "main", JObj(EmptyDict)), "humidity"),
       MethodGet(DictGet(weather_data, "wind", JObj(EmptyDict)), "speed"),
       ThenGet(Index0(DictGet(weather_data, "weather", JArr(<<JObj(EmptyDict)>>))),
               "description"),
       ThenGet(Index0(DictGet(weather_data, "weather", JArr(<<JObj(EmptyDict)>>))),
               "icon"),
       Ok(DictGet(weather_data, "coord", None)),
       Ok(DictGet(weather_data, "dt", None)) >>

\* The body of the try statement, given the outcome o of the upstream call.
get_weather_get_try(o) ==
    CASE o.exc # "" -> Raise(o.exc)
      [] o.exc = "" /\ o.status >= 400 -> Raise("HTTPError")
      [] o.exc = "" /\ o.status < 400 /\ o.decode # "ok" -> Raise(o.decode)
      [] OTHER ->
           IF Tag(o.data) # "obj"
           THEN RaiseHTTP(502, JStr("Invalid response from weather API"))
           ELSE IF get_weather_get_cod_rejected(Val(o.data))
           THEN RaiseHTTP(400, get_weather_get_detail(Val(o.data)))
           ELSE DictLiteral(get_weather_get_fields(Val(o.data)))

\* The except clauses, in order: Timeout, then RequestException.
get_weather_get_except(e) ==
    IF IsTimeout(e)
    THEN Response(504, "HTTPException", JStr("Weather API request timed out"))
    ELSE IF IsRequestException(e)
    THEN Response(400, "HTTPException", <<"fstr", <<"Weather API request failed: ", e>>>>)
    ELSE Unhandled(e)

\* The response the request ends with.
get_weather_get_response(o) ==
    LET r == get_weather_get_try(o) IN
    CASE r[1] = "ok" -> Response(200, "return", r[2])
      [] r[1] = "http" -> Response(r[2], "HTTPException", r[3])
      [] OTHER -> get_weather_get_except(r[2])

\* requests.get is called once in the handler, outside any loop.
get_weather_get_calls(o) == 1

(***************************************************************************)
(* GET /health: health_check.                                              *)
(***************************************************************************)
health_check_body ==
    JObj(("status" :> JStr("Ok")) @@ ("message" :> JStr("Weather API is running smoothly!")))

(***************************************************************************)
(* The state machine.                                                      *)
(***************************************************************************)
NoRequest == [method |-> "", path |-> "", city_name |-> <<>>, lat |-> NoFloat, lon |-> NoFloat]

Init ==
    /\ pc = "idle"
    /\ req = NoRequest
    /\ url = <<>>
    /\ calls = 0
    /\ upstream = NoOutcome
    /\ resp = NoResponse

get_weather ==
    /\ pc = "idle"
    /\ \E location \in LocationInput, o \in Outcomes :
         /\ pc' = "done"
         /\ req' = [method |-> "POST", path |-> "/weather",
                    city_name |-> location.city_name,
                    lat |-> location.lat, lon |-> location.lon]
         /\ url' = get_weather_url(location)
         /\ calls' = get_weather_calls(o)
         /\ upstream' = o
         /\ resp' = get_weather_response(o)

get_weather_get ==
    /\ pc = "idle"
    /\ \E city_name \in CityNames, o \in Outcomes :
         /\ pc' = "done"
         /\ req' = [method |-> "GET", path |-> "/weather", city_name |-> city_name,
                    lat |-> NoFloat, lon |-> NoFloat]
         /\ url' = get_weather_get_url(city_name)
         /\ calls' = get_weather_get_calls(o)
         /\ upstream' = o
         /\ resp' = get_weather_get_response(o)

health_check ==
    /\ pc = "idle"
    /\ pc' = "done"
    /\ req' = [method |-> "GET", path |-> "/health", city_name |-> <<>>,
               lat |-> NoFloat, lon |-> NoFloat]
    /\ url' = <<>>
    /\ calls' = 0
    /\ upstream' = NoOutcome
    /\ resp' = Response(200, "return", health_check_body)

\* The framework sends the response; the server holds nothing of the request.
SendResponse ==
    /\ pc = "done"
    /\ pc' = "idle"
    /\ req' = NoRequest
    /\ url' = <<>>
    /\ calls' = 0
    /\ upstream' = NoOutcome
    /\ resp' = NoResponse

Next ==
    \/ get_weather
    \/ get_weather_get
    \/ health_check
    \/ SendResponse

Spec == Init /\ [][Next]_vars

(***************************************************************************)
(* Vocabulary of the properties.                                           *)
(***************************************************************************)
WeatherDone == pc = "done" /\ req.path = "/weather"

\* The upstream call succeeded and its body decoded to the value upstream.data.
CallDecoded == upstream.exc = "" /\ upstream.status = 200 /\ upstream.decode = "ok"
DecodedObject == CallDecoded /\ Tag(upstream.data) = "obj"
HasCod == "cod" \in DOMAIN Val(upstream.data)
Cod200 == HasCod /\ Val(upstream.data)["cod"] = <<"num", 200>>

\* The query of a URL as the provider receives it: the tokens after the
\* base, up to a fragment mark, cut at "&" into parameters key=value.
RECURSIVE UpToFragment(_)
UpToFragment(q) ==
    IF q = <<>> \/ Head(q) = "#" THEN <<>> ELSE <<Head(q)>> \o UpToFragment(Tail(q))

RECURSIVE SplitAmp(_)
SplitAmp(q) ==
    IF q = <<>> THEN << <<>> >>
    ELSE LET rest == SplitAmp(Tail(q)) IN
         IF Head(q) = "&" THEN << <<>> >> \o rest
         ELSE << <<Head(q)>> \o rest[1] >> \o Tail(rest)

QueryParams(u) == LET ps == SplitAmp(UpToFragment(Tail(u))) IN {ps[i] : i \in 1..Len(ps)}
QueryKeys(u) == {p[1] : p \in {x \in QueryParams(u) : x # <<>>}}
Carries(u, key, value) == (<<key, "=">> \o value) \in QueryParams(u)

\* The null of the normalized output.
Null == <<"null", 0>>
Member(obj, k) == IF k \in DOMAIN obj THEN obj[k] ELSE Null
IsObj(j) == j[1] = "obj"

\* The payload's nested members, where present, have the provider's types:
\* sys, main and wind are objects and weather is an array of objects.
WellFormed ==
    LET p == Val(upstream.data) IN
    /\ \A k \in {"sys", "main", "wind"} \cap DOMAIN p : IsObj(p[k])
    /\ "weather" \in DOMAIN p =>
         /\ p["weather"][1] = "arr"
         /\ \A i \in 1..Len(p["weather"][2]) : IsObj(p["weather"][2][i])

(***************************************************************************)
(* C1.  A decoded object payload with cod 200 (its nested members, where   *)
(* present, well formed) makes either /weather handler return a normalized *)
(* body with status 200 and raise nothing; the fields of a missing path    *)
(* (sys, main, wind or weather absent, or the weather array empty) are     *)
(* null.  The code violates it: an empty weather array raises IndexError.  *)
(***************************************************************************)
C1_NormalizationTotal ==
    (WeatherDone /\ DecodedObject /\ Cod200 /\ WellFormed) =>
        /\ resp.status = 200
        /\ resp.kind = "return"
        /\ IsObj(resp.body)
        /\ LET p == Val(upstream.data)
               out == Val(resp.body)
           IN /\ "sys" \notin DOMAIN p => out["country"] = Null
              /\ "main" \notin DOMAIN p =>
                    /\ out["temperature"] = Null
                    /\ out["feels_like"] = Null
                    /\ out["humidity"] = Null
              /\ "wind" \notin DOMAIN p => out["wind_speed"] = Null
              /\ ("weather" \notin DOMAIN p \/ Member(p, "weather") = <<"arr", <<>>>>) =>
                    /\ out["weather"] = Null
                    /\ out["icon"] = Null

(***************************************************************************)
(* C2.  A decoded object payload whose cod is present and is not the       *)
(* number 200 ends the /weather request with HTTP 400 whose message is the *)
(* payload's message member if present and the fixed fallback string       *)
(* otherwise, whatever the payload's other members are.                    *)
(***************************************************************************)
C2_ProviderError ==
    (WeatherDone /\ DecodedObject /\ HasCod /\ ~Cod200) =>
        /\ resp.status = 400
        /\ resp.kind = "HTTPException"
        /\ resp.body = IF "message" \in DOMAIN Val(upstream.data)
                       THEN Val(upstream.data)["message"]
                       ELSE <<"str", "Unknown error from weather API">>

\* A rejected payload that has a message and other members besides.
C2_Witness ==
    /\ WeatherDone /\ DecodedObject /\ HasCod /\ ~Cod200
    /\ Member(Val(upstream.data), "message") = <<"str", "city not found">>
    /\ {"name", "weather", "main"} \subseteq DOMAIN Val(upstream.data)
    /\ resp.status = 400
    /\ resp.body = <<"str", "city not found">>

(***************************************************************************)
(* C3, as stated.  A decoded object payload that has no cod member is not  *)
(* rejected as a provider error: the request returns 200 with the          *)
(* normalized fields.                                                      *)
(***************************************************************************)
C3_AbsentCodAccepted ==
    (WeatherDone /\ DecodedObject /\ ~HasCod) =>
        (resp.status = 200 /\ resp.kind = "return")

(***************************************************************************)
(* C3, amended.  The provider-error rejection fires exactly when the       *)
(* payload's cod member is absent or is not the number 200: a payload with *)
(* no cod is rejected with HTTP 400 and its message (or the fallback       *)
(* string), and a payload with cod 200 is never rejected by a raised       *)
(* HTTPException.                                                          *)
(***************************************************************************)
C3_RejectedUnlessCod200 ==
    (WeatherDone /\ DecodedObject) =>
        /\ ~HasCod =>
              /\ resp.status = 400
              /\ resp.kind = "HTTPException"
              /\ resp.body = Member(Val(upstream.data)
                                        @@ [message |-> <<"str", "Unknown error from weather API">>],
                                     "message")
        /\ Cod200 => resp.kind # "HTTPException"
        /\ (resp.kind = "HTTPException") <=> ~Cod200

\* A payload without cod, otherwise complete, is rejected.
C3_Witness ==
    /\ WeatherDone /\ DecodedObject /\ ~HasCod
    /\ {"name", "sys", "main", "wind", "weather", "coord", "dt"}
          \subseteq DOMAIN Val(upstream.data)
    /\ resp.status = 400
    /\ resp.body = <<"str", "Unknown error from weather API">>

(***************************************************************************)
(* C4.  A /weather request whose upstream call times out ends with exactly *)
(* HTTP 504 and the message "Weather API request timed out"; one whose     *)
(* call fails with another transport failure ends with exactly HTTP 400    *)
(* and a message embedding the failure's description.  504 is returned     *)
(* for timeouts only.                                                      *)
(***************************************************************************)
C4_TransportFailures ==
    WeatherDone =>
        /\ upstream.exc \in {"Timeout", "ConnectTimeout", "ReadTimeout"} =>
              resp = [status |-> 504, kind |-> "HTTPException",
                      body |-> <<"str", "Weather API request timed out">>]
        /\ upstream.exc \in {"ConnectionError", "SSLError"} =>
              resp = [status |-> 400, kind |-> "HTTPException",
                      body |-> <<"fstr", <<"Weather API request failed: ", upstream.exc>>>>]
        /\ resp.status = 504 =>
              upstream.exc \in {"Timeout", "ConnectTimeout", "ReadTimeout"}

\* A connect timeout, which is both a ConnectionError and a Timeout, on POST.
C4_Witness ==
    /\ WeatherDone /\ req.method = "POST"
    /\ upstream.exc = "ConnectTimeout"
    /\ resp.status = 504

(***************************************************************************)
(* C5.  On POST /weather the provider receives a query with lat and lon    *)
(* and without q exactly when both coordinates are present and non-zero;   *)
(* otherwise the query has q=<city_name> and neither lat nor lon.  It never*)
(* has both q and lat or lon, and always has appid and units=metric.  The  *)
(* code violates it: the city name is formatted into the URL unencoded.    *)
(***************************************************************************)
C5_QueryShape ==
    (pc = "done" /\ req.method = "POST") =>
        LET keys == QueryKeys(url)
            coords == req.lat # <<>> /\ req.lat[1] # 0 /\ req.lon # <<>> /\ req.lon[1] # 0
        IN /\ coords <=> ({"lat", "lon"} \subseteq keys /\ "q" \notin keys)
           /\ ~coords => (Carries(url, "q", req.city_name) /\ keys \cap {"lat", "lon"} = {})
           /\ ~("q" \in keys /\ keys \cap {"lat", "lon"} # {})
           /\ "appid" \in keys
           /\ Carries(url, "units", <<"metric">>)

(***************************************************************************)
(* C6.  Every /weather request whose upstream call ends in a transport     *)
(* result, an HTTP status or a decoded JSON value ends with a response of  *)
(* status 200 (a returned body) or 400, 502 or 504 (a message), and never  *)
(* with an unhandled exception.  The code violates it through the          *)
(* IndexError of C1.                                                       *)
(***************************************************************************)
C6_DocumentedStatuses ==
    (WeatherDone /\ upstream.decode = "ok") =>
        \/ resp.status = 200 /\ resp.kind = "return"
        \/ resp.status \in {400, 502, 504} /\ resp.kind = "HTTPException"

(***************************************************************************)
(* C7.  GET /weather?city_name=c and POST /weather with {city_name: c} and *)
(* no coordinates issue the same upstream request and, for the same        *)
(* upstream outcome, end with the same status and body.                    *)
(***************************************************************************)
C7_EntryPointsEquivalent ==
    /\ (WeatherDone /\ req.method = "GET") =>
          /\ url = get_weather_url([city_name |-> req.city_name, lat |-> <<>>, lon |-> <<>>])
          /\ calls = get_weather_calls(upstream)
          /\ resp = get_weather_response(upstream)
    /\ (WeatherDone /\ req.method = "POST" /\ req.lat = <<>> /\ req.lon = <<>>) =>
          /\ url = get_weather_get_url(req.city_name)
          /\ calls = get_weather_get_calls(upstream)
          /\ resp = get_weather_get_response(upstream)

\* A GET request answered with a normalized body.
C7_Witness ==
    /\ WeatherDone /\ req.method = "GET"
    /\ DecodedObject /\ Cod200
    /\ resp.status = 200

(***************************************************************************)
(* C8.  When the upstream call succeeds and the decoded payload is not an  *)
(* object, the /weather request ends with HTTP 502 and the message         *)
(* "Invalid response from weather API", whatever the payload holds.        *)
(***************************************************************************)
C8_NotAnObject ==
    (WeatherDone /\ CallDecoded /\ upstream.data[1] # "obj") =>
        resp = [status |-> 502, kind |-> "HTTPException",
                body |-> <<"str", "Invalid response from weather API">>]

\* A bare array that holds an object with cod 200.
C8_Witness ==
    /\ WeatherDone /\ CallDecoded
    /\ upstream.data[1] = "arr" /\ Len(upstream.data[2]) > 0
    /\ resp.status = 502

(***************************************************************************)
(* C9.  A /weather request makes at most one upstream call, also when the  *)
(* call or the payload fails; a /health request makes none and returns the *)
(* fixed payload.                                                          *)
(***************************************************************************)
C9_AtMostOneCall ==
    /\ calls <= 1
    /\ (pc = "done" /\ req.path = "/health") =>
          /\ calls = 0
          /\ url = <<>>
          /\ resp = [status |-> 200, kind |-> "return",
                     body |-> <<"obj", [status |-> <<"str", "Ok">>,
                                        message |-> <<"str", "Weather API is running smoothly!">>]>>]

\* A request that failed by a timeout made its one call.
C9_Witness ==
    /\ WeatherDone
    /\ upstream.exc = "Timeout"
    /\ calls = 1
    /\ resp.status = 504

(***************************************************************************)
(* C10.  For a decoded object payload with cod 200 in which every mapped   *)
(* path is present, the returned body has exactly the ten output fields,   *)
(* each the payload's value unchanged.                                     *)
(***************************************************************************)
AllPathsPresent ==
    LET p == Val(upstream.data) IN
    /\ {"name", "sys", "main", "wind", "weather", "coord", "dt"} \subseteq DOMAIN p
    /\ IsObj(p["sys"]) /\ "country" \in DOMAIN p["sys"][2]
    /\ IsObj(p["main"]) /\ {"temp", "feels_like", "humidity"} \subseteq DOMAIN p["main"][2]
    /\ IsObj(p["wind"]) /\ "speed" \in DOMAIN p["wind"][2]
    /\ p["weather"][1] = "arr" /\ Len(p["weather"][2]) > 0
    /\ IsObj(p["weather"][2][1])
    /\ {"description", "icon"} \subseteq DOMAIN p["weather"][2][1][2]

C10_FieldsCopied ==
    (WeatherDone /\ DecodedObject /\ Cod200 /\ AllPathsPresent) =>
        LET p == Val(upstream.data) IN
        resp = [status |-> 200, kind |-> "return",
                body |-> <<"obj",
                   [city |-> p["name"],
                    country |-> p["sys"][2]["country"],
                    temperature |-> p["main"][2]["temp"],
                    feels_like |-> p["main"][2]["feels_like"],
                    humidity |-> p["main"][2]["humidity"],
                    wind_speed |-> p["wind"][2]["speed"],
                    weather |-> p["weather"][2][1][2]["description"],
                    icon |-> p["weather"][2][1][2]["icon"],
                    coordinates |-> p["coord"],
                    timestamp |-> p["dt"]]>>]

\* The round trip of the complete payload.
C10_Witness ==
    /\ WeatherDone /\ DecodedObject /\ Cod200 /\ AllPathsPresent
    /\ resp.status = 200
    /\ Val(resp.body)["city"] = <<"str", "Paris">>
    /\ Val(resp.body)["temperature"] = <<"num", 15>>
    /\ Val(resp.body)["feels_like"] = <<"num", 14>>
    /\ Val(resp.body)["icon"] = <<"str", "01d">>

====
